---- MODULE Spec2Model ----
(***************************************************************************)
(* servico-usuarios: user records split across a document store            *)
(* (Firestore collection 'users') and a geospatial relational table        *)
(* (user_locations, reached through one process-wide SQLAlchemy session),  *)
(* with a change event handed to a Kafka producer after each mutation.     *)
(* Model of api/index.py.                                                  *)
(*                                                                         *)
(* Coordinates are decimal numbers with one fractional digit, held as an   *)
(* integer number of tenths (-235 is -23.5).  Text is a sequence of        *)
(* one-character strings.  A JSON object / Python dict is a function       *)
(* whose DOMAIN is its set of keys.                                        *)
(***************************************************************************)
EXTENDS Integers, Sequences, FiniteSets, TLC

\* ------------------------------------------------------------------ bounds
\* number of user ids uuid4() hands out in one behaviour
MaxUsers == 1
\* number of SERVER_TIMESTAMP values the document store hands out
MaxClock == 2

UserIds == 1..MaxUsers

\* ------------------------------------------------------------------ state
VARIABLES
    db,              \* Firestore client was initialised (index.py: db)
    db_session,      \* SQLAlchemy session was created (index.py: db_session)
    producer,        \* Kafka producer was initialised (index.py: producer)
    db_init_error,   \* init_db recorded an error (index.py: db_init_error)
    users,           \* the 'users' collection: document id -> fields
    user_locations,  \* committed rows of table user_locations
    session,         \* pending state of the shared session
    generated,       \* how many ids uuid4() has handed out
    clock,           \* last SERVER_TIMESTAMP handed out
    resp,            \* the request answered by the last step and its
                     \* response (none when the step answered nothing)
    supplied,        \* history: user id -> the location object of the last
                     \* successful create or update that carried a
                     \* well-formed one
    pc,              \* worker -> where its handler stands, for requests
                     \* handled concurrently
    req              \* worker -> the request it is handling

vars == <<db, db_session, producer, db_init_error, users, user_locations, session,
          generated, clock, resp, supplied, pc, req>>

\* ------------------------------------------------------- dicts (JSON objects)
EmptyDict == [k \in {} |-> 0]

\* d.copy() followed by d.pop(k, None): the dict without key k
Pop(d, k) == [x \in (DOMAIN d) \ {k} |-> d[x]]

\* d[k] = v
Put(d, k, v) == [x \in (DOMAIN d) \cup {k} |-> IF x = k THEN v ELSE d[x]]

\* Firestore update(): the fields of e written over those of d
Merge(d, e) == [x \in (DOMAIN d) \cup (DOMAIN e) |-> IF x \in DOMAIN e THEN e[x] ELSE d[x]]

\* ------------------------------------------------- formatting and parsing
DigitChars == <<"0", "1", "2", "3", "4", "5", "6", "7", "8", "9">>

RECURSIVE NatStr(_)
\* str() of a natural number
NatStr(n) == IF n < 10 THEN <<DigitChars[n + 1]>>
             ELSE NatStr(n \div 10) \o <<DigitChars[(n % 10) + 1]>>

\* str() of a float with one fractional digit, as an f-string renders it
FloatStr(t) ==
    LET a == IF t < 0 THEN -t ELSE t
    IN  (IF t < 0 THEN <<"-">> ELSE <<>>)
        \o NatStr(a \div 10) \o <<".">> \o <<DigitChars[(a % 10) + 1]>>

\* variant of WktPoint with the coordinates in the order (lat lon); C1
\* fails under it
WktPointLatFirst(lon, lat) ==
    <<"P", "O", "I", "N", "T", "(">> \o FloatStr(lat) \o <<" ">> \o FloatStr(lon) \o <<")">>

\* f'POINT({lon} {lat})'
WktPoint(lon, lat) ==
    <<"P", "O", "I", "N", "T", "(">> \o FloatStr(lon) \o <<" ">> \o FloatStr(lat) \o <<")">>

DigitVal(c) == CHOOSE d \in 0..9 : DigitChars[d + 1] = c

RECURSIVE ParseDigits(_, _)
\* the digits of s, skipping the decimal point, read as one number
ParseDigits(s, acc) ==
    IF s = <<>> THEN acc
    ELSE IF Head(s) = "." THEN ParseDigits(Tail(s), acc)
    ELSE ParseDigits(Tail(s), acc * 10 + DigitVal(Head(s)))

\* a decimal text with one fractional digit -> tenths
ParseFloat(s) ==
    IF Head(s) = "-" THEN -ParseDigits(Tail(s), 0) ELSE ParseDigits(s, 0)

\* position of the first c in s (0 when absent)
IndexOf(s, c) ==
    IF \E i \in 1..Len(s) : s[i] = c
    THEN CHOOSE i \in 1..Len(s) : s[i] = c /\ \A j \in 1..(i - 1) : s[j] # c
    ELSE 0

\* to_shape(location): the point of a stored value; x is the first
\* coordinate of the WKT text, y the second
to_shape(wkt) ==
    LET open  == IndexOf(wkt, "(")
        space == IndexOf(wkt, " ")
        close == IndexOf(wkt, ")")
    IN  [x |-> ParseFloat(SubSeq(wkt, open + 1, space - 1)),
         y |-> ParseFloat(SubSeq(wkt, space + 1, close - 1))]

\* ------------------------------------------------------------ the session
\* new: rows added and not committed; dirty: rows whose location was
\* assigned and not committed; deleted: user_ids whose row was marked
\* deleted and not committed; inTx: a transaction has begun and was
\* neither committed nor rolled back
CleanSession == [new |-> {}, dirty |-> {}, deleted |-> {}, inTx |-> FALSE]

\* UserLocation(user_id=..., location=...)
UserLocation(user_id, location) == [user_id |-> user_id, location |-> location]

\* variant of FlushConflict for a table without its primary key; C19 fails
\* under it
FlushNeverConflicts(table, s) == FALSE

\* the flush violates the primary key of user_locations
FlushConflict(table, s) ==
    \/ \E r \in s.new : \E t \in table : t.user_id = r.user_id
    \/ \E r1, r2 \in s.new : r1 # r2 /\ r1.user_id = r2.user_id

\* the table after the session's INSERTs, UPDATEs and DELETEs
Flush(table, s) ==
    LET updated == { IF \E d \in s.dirty : d.user_id = t.user_id
                     THEN CHOOSE d \in s.dirty : d.user_id = t.user_id
                     ELSE t : t \in table }
    IN  { t \in updated \cup s.new : t.user_id \notin s.deleted }

\* variant of SessionRollback that discards nothing; C2 as amended fails
\* under it
RollbackKeepsPending(s) == s

\* db_session.rollback(): every pending change is discarded and the
\* transaction ends
SessionRollback(s) == CleanSession

\* db_session.add(row)
SessionAdd(s, row) == [s EXCEPT !.new = @ \cup {row}, !.inTx = TRUE]

\* db_session.query(UserLocation).filter_by(user_id=user_id).first(),
\* as a set holding the row found, or empty for None
QueryFirst(table, s, user_id) ==
    LET found == { t \in Flush(table, s) : t.user_id = user_id }
    IN  IF found = {} THEN {} ELSE {CHOOSE t \in found : TRUE}

\* location_record.location = wkt_point
AssignLocation(s, user_id, wkt) ==
    IF \E r \in s.new : r.user_id = user_id
    THEN [s EXCEPT !.new = { IF r.user_id = user_id
                             THEN UserLocation(user_id, wkt) ELSE r : r \in @ }]
    ELSE [s EXCEPT !.dirty = { d \in @ : d.user_id # user_id }
                                \cup {UserLocation(user_id, wkt)},
                   !.inTx = TRUE]

\* db_session.delete(location_record)
SessionDelete(s, user_id) == [s EXCEPT !.deleted = @ \cup {user_id}, !.inTx = TRUE]

\* ------------------------------------------------------------- payloads
Points == { [latitude |-> -235, longitude |-> -466],
            [latitude |-> -100, longitude |-> -200] }
\* location objects: well-formed, missing a coordinate, empty
Locations == Points \cup { [latitude |-> -235], [longitude |-> -200], EmptyDict }

WithLocation(d) == {d} \cup { Put(d, "location", l) : l \in Locations }

\* request bodies of POST /users: an empty body, a body missing email or
\* name, bodies whose email or name is the empty string, and complete
\* bodies without and with a location object
CreatePayloads ==
    { EmptyDict, [email |-> "a@b.com"], [name |-> "A"],
      [email |-> "", name |-> "A"], [email |-> "a@b.com", name |-> ""] }
    \cup WithLocation([email |-> "a@b.com", name |-> "A"])

\* request bodies of PUT /users/<id>: an empty body, a body with and
\* without fields other than location, with and without a location object
UpdatePayloads ==
    { EmptyDict, [name |-> "B"],
      [name |-> "B", location |-> [latitude |-> -100, longitude |-> -200]] }
    \cup { [location |-> l] : l \in Locations }

\* location_data and 'latitude' in location_data and 'longitude' in location_data
HasLocation(data) ==
    /\ "location" \in DOMAIN data
    /\ DOMAIN data["location"] # {}
    /\ "latitude" \in DOMAIN data["location"]
    /\ "longitude" \in DOMAIN data["location"]

\* the wkt_point a handler builds from the payload's location
PayloadWkt(data) == WktPoint(data["location"]["longitude"], data["location"]["latitude"])

\* ------------------------------------------------------------ publishing
\* variant of publish_event without its try/except: an exception of
\* produce() leaves the function; C12 fails under it
PublishEventUncaught(event_type, user_id, data, produceRaises) ==
    IF ~producer THEN [produced |-> <<>>, produce_calls |-> 0, raised |-> FALSE]
    ELSE IF produceRaises
    THEN [produced |-> <<>>, produce_calls |-> 1, raised |-> TRUE]
    ELSE [produced |-> << [event_type |-> event_type, user_id |-> user_id,
                           data |-> data, source_service |-> "servico-usuarios"] >>,
          produce_calls |-> 1, raised |-> FALSE]

\* publish_event: the events handed to the producer by one call, the calls
\* of producer.produce() and whether an exception leaves the function.
\* Without a producer it returns at once; an exception of produce() is
\* caught and printed, and produce() is not called again
publish_event(event_type, user_id, data, produceRaises) ==
    IF ~producer THEN [produced |-> <<>>, produce_calls |-> 0, raised |-> FALSE]
    ELSE IF produceRaises
    THEN [produced |-> <<>>, produce_calls |-> 1, raised |-> FALSE]
    ELSE [produced |-> << [event_type |-> event_type, user_id |-> user_id,
                           data |-> data, source_service |-> "servico-usuarios"] >>,
          produce_calls |-> 1, raised |-> FALSE]

\* variant of PublishCall in which every call site passes 'UserUpdated'; C3
\* fails under it
PublishCallAsUpdated(event_type, user_id, data) ==
    [event_type |-> "UserUpdated", user_id |-> user_id, data |-> data]

\* variant of PublishCall in which the handlers pass the location-stripped
\* copy of the payload; C13 fails under it
PublishCallStripped(event_type, user_id, data) ==
    [event_type |-> event_type, user_id |-> user_id, data |-> Pop(data, "location")]

\* one recorded call of publish_event
PublishCall(event_type, user_id, data) ==
    [event_type |-> event_type, user_id |-> user_id, data |-> data]

\* ------------------------------------------------------------- responses
\* what is recorded of a request: the operation, its target (the generated
\* id for a create), the request body, the injected fault, the status and
\* body of the response, the calls of publish_event, the events produced,
\* the calls of db_session.commit() and db_session.rollback(), and the
\* session's pending changes when the handler reached its document write
\* (none when it returned before), the calls of db_session.execute() and
\* the calls of producer.produce()
Response(op, user_id, payload, fault, status, body, calls, produced, commits, rollbacks) ==
    [op |-> op, user_id |-> user_id, payload |-> payload, fault |-> fault,
     status |-> status, body |-> body, publish_calls |-> calls,
     produced |-> produced, commits |-> commits, rollbacks |-> rollbacks,
     staged |-> CleanSession, probes |-> 0, produce_calls |-> 0]

\* the response r of a handler that reached its document write with the
\* session in state s
Reached(r, s) == [r EXCEPT !.staged = s]

\* the response r of a handler that called get_health_status: the probe
\* SELECT 1 is executed on the session when there is one
Probed(r) == [r EXCEPT !.probes = IF db_session THEN 1 ELSE 0]

NoResponse ==
    Response("none", 0, EmptyDict, "none", 0, EmptyDict, <<>>, <<>>, 0, 0)

ErrorBody(msg) == [error |-> msg]

\* ---------------------------------------------------------------- Init
\* the threads of the process that handle requests at the same time
Workers == {"w1", "w2"}

\* no request being handled; found is what the geo lookup of a request
\* returned, apart holds while no request on the same user_id has run at
\* the same time
NoRequest ==
    [op |-> "none", user_id |-> 0, payload |-> EmptyDict, found |-> FALSE,
     apart |-> TRUE]

\* the module after import: each client was initialised or not; the stores
\* are empty and no request was made
InitClients ==
    /\ db \in BOOLEAN
    /\ db_session \in BOOLEAN
    /\ producer \in BOOLEAN
    /\ users = EmptyDict
    /\ user_locations = {}
    /\ session = CleanSession
    /\ generated = 0
    /\ clock = 0
    /\ resp = NoResponse
    /\ supplied = EmptyDict
    /\ pc = [w \in Workers |-> "idle"]
    /\ req = [w \in Workers |-> NoRequest]

\* init_db: without an engine it records an error; with one, create_all
\* created or found the table
Init ==
    /\ InitClients
    /\ db_init_error = ~db_session

\* init_db, create_all raising included: with an engine the table
\* initialisation succeeded or recorded an error
InitTableError ==
    /\ InitClients
    /\ db_init_error \in (IF db_session THEN BOOLEAN ELSE {TRUE})

\* the stores as a handler finds them
Stores ==
    [users |-> users, user_locations |-> user_locations, session |-> session,
     generated |-> generated, clock |-> clock]

\* a handler's outcome: the stores it leaves and its response
Outcome(st, r) == [st |-> st, resp |-> r]

\* the call of publish_event that follows the commit inside a handler's try
\* block, out being the handler's outcome up to the commit and pub what
\* publish_event did: an exception leaving publish_event would reach the
\* handler's except clause (rollback, 500)
Publishing(out, pub) ==
    IF pub.raised
    THEN Outcome(out.st, [out.resp EXCEPT !.status = 500,
                                          !.body = ErrorBody("storage"),
                                          !.rollbacks = 1,
                                          !.produce_calls = pub.produce_calls])
    ELSE Outcome(out.st, [out.resp EXCEPT !.produced = pub.produced,
                                          !.produce_calls = pub.produce_calls])

\* the next state is a handler's outcome; the client handles never change
Apply(out) ==
    /\ users' = out.st.users
    /\ user_locations' = out.st.user_locations
    /\ session' = out.st.session
    /\ generated' = out.st.generated
    /\ clock' = out.st.clock
    /\ resp' = out.resp
    /\ supplied' = IF /\ out.resp.op \in {"create", "update"}
                      /\ out.resp.status \in {200, 201}
                      /\ HasLocation(out.resp.payload)
                   THEN Put(supplied, out.resp.user_id, out.resp.payload["location"])
                   ELSE supplied
    /\ UNCHANGED <<db, db_session, producer, db_init_error, pc, req>>

\* the store calls of a handler's try block that can raise: the document
\* read, the geo lookup, the staging of a geo change (constructing or adding
\* a row, assigning its location, marking it deleted), the document write
\* (set, update, delete) and the commit
Faults == {"none", "docget", "query", "stage", "docwrite", "commit"}

\* not db or not db_session
DependenciesMissing == ~db \/ ~db_session

\* db_session.commit() raises: the injected fault, or the flush fails
CommitRaises(table, s, fault) == fault = "commit" \/ FlushConflict(table, s)

\* get_health_status as called from create_user's 503 branch: the probe
\* SELECT 1 runs on the session when there is one
HealthProbe(s) == IF db_session THEN [s EXCEPT !.inTx = TRUE] ELSE s

\* ------------------------------------------------------------ POST /users
\* the points at which create_user's try block can raise
CreateFaults(user_data) ==
    {"none", "docwrite", "commit"} \cup (IF HasLocation(user_data) THEN {"stage"} ELSE {})

\* the document create_user writes
CreateDocument(user_data, now) ==
    Put(Put(Pop(user_data, "location"), "created_at", now), "updated_at", now)

\* the session after create_user's staging step
CreateStage(s, user_id, user_data) ==
    IF HasLocation(user_data)
    THEN SessionAdd(s, UserLocation(user_id, PayloadWkt(user_data)))
    ELSE s

\* 'email' not in user_data or 'name' not in user_data (or an empty body)
CreateInvalid(user_data) ==
    \/ DOMAIN user_data = {}
    \/ "email" \notin DOMAIN user_data
    \/ "name" \notin DOMAIN user_data

\* the try block of create_user, for a valid payload
CreateTry(st, user_data, fault, produceRaises) ==
    LET user_id == st.generated + 1
        st0 == [st EXCEPT !.generated = user_id]
        staged == CreateStage(st.session, user_id, user_data)
        now == st.clock + 1
        written == [st0 EXCEPT !.users = Put(@, user_id, CreateDocument(user_data, now)),
                               !.clock = now]
        failed(s, commits, pending) ==
            Outcome([s EXCEPT !.session = SessionRollback(pending)],
                    Reached(Response("create", user_id, user_data, fault, 500,
                                     ErrorBody("storage"), <<>>, <<>>, commits, 1),
                            IF fault = "stage" THEN CleanSession ELSE pending))
    IN  IF fault = "stage" THEN failed(st0, 0, st.session)
        ELSE IF fault = "docwrite" THEN failed(st0, 0, staged)
        ELSE IF CommitRaises(st.user_locations, staged, fault)
        THEN failed(written, 1, staged)
        ELSE Publishing(
                 Outcome([written EXCEPT !.user_locations = Flush(@, staged),
                                         !.session = CleanSession],
                         Reached(Response("create", user_id, user_data, fault, 201,
                                          [id |-> user_id],
                                          <<PublishCall("UserCreated", user_id, user_data)>>,
                                          <<>>, 1, 0),
                                 staged)),
                 publish_event("UserCreated", user_id, user_data, produceRaises))

create_user(st, user_data, fault, produceRaises) ==
    IF DependenciesMissing
    THEN Outcome([st EXCEPT !.session = HealthProbe(@)],
                 Probed(Response("create", 0, user_data, fault, 503,
                                 ErrorBody("dependencies"), <<>>, <<>>, 0, 0)))
    ELSE IF CreateInvalid(user_data)
    THEN Outcome(st, Response("create", 0, user_data, fault, 400,
                              ErrorBody("email and name required"), <<>>, <<>>, 0, 0))
    ELSE CreateTry(st, user_data, fault, produceRaises)

\* the inputs under which a fault or a producer failure can take place
CreateReaches(user_data, fault, produceRaises) ==
    IF DependenciesMissing \/ CreateInvalid(user_data)
    THEN fault = "none" /\ ~produceRaises
    ELSE /\ fault \in CreateFaults(user_data)
         /\ produceRaises => (fault = "none" /\ producer)
         /\ generated < MaxUsers
         /\ clock < MaxClock

CreateUser ==
    \E user_data \in CreatePayloads, fault \in Faults, produceRaises \in BOOLEAN :
        /\ CreateReaches(user_data, fault, produceRaises)
        /\ \E out \in {create_user(Stores, user_data, fault, produceRaises)} :
              Apply(out)

\* --------------------------------------------------- GET /users/<user_id>
\* variant of GetBody that sets an empty location when no row was found;
\* C6 fails under it
GetBodyAlwaysLocation(doc, user_id, found) ==
    LET user_data == Put(doc, "id", user_id)
    IN  IF found = {} THEN Put(user_data, "location", EmptyDict)
        ELSE LET point == to_shape((CHOOSE r \in found : TRUE).location)
             IN  Put(user_data, "location",
                     [latitude |-> point.y, longitude |-> point.x])

\* variant of GetBody that reads latitude from x and longitude from y; C7
\* fails under it
GetBodySwapped(doc, user_id, found) ==
    LET user_data == Put(doc, "id", user_id)
    IN  IF found = {} THEN user_data
        ELSE LET point == to_shape((CHOOSE r \in found : TRUE).location)
             IN  Put(user_data, "location",
                     [latitude |-> point.x, longitude |-> point.y])

\* the body of a 200: the document, its id, and the decoded point when a
\* row was found
GetBody(doc, user_id, found) ==
    LET user_data == Put(doc, "id", user_id)
    IN  IF found = {} THEN user_data
        ELSE LET point == to_shape((CHOOSE r \in found : TRUE).location)
             IN  Put(user_data, "location",
                     [latitude |-> point.y, longitude |-> point.x])

\* the try block of get_user; its except branch does not roll back
GetTry(st, user_id, fault) ==
    LET r(s, status, body) ==
            Outcome(s, Response("get", user_id, EmptyDict, fault, status, body,
                                <<>>, <<>>, 0, 0))
        queried == [st EXCEPT !.session.inTx = TRUE]
    IN  IF fault = "docget" THEN r(st, 500, ErrorBody("storage"))
        ELSE IF user_id \notin DOMAIN st.users THEN r(st, 404, ErrorBody("not found"))
        ELSE IF fault = "query" \/ FlushConflict(st.user_locations, st.session)
        THEN r(queried, 500, ErrorBody("storage"))
        ELSE r(queried, 200,
               GetBody(st.users[user_id], user_id,
                       QueryFirst(st.user_locations, st.session, user_id)))

\* variant of get_user that runs the geo lookup before it reads the
\* document; C8 fails under it
GetLooksUpGeoFirst(st, user_id, fault) ==
    IF DependenciesMissing
    THEN Outcome(st, Response("get", user_id, EmptyDict, fault, 503,
                              ErrorBody("dependencies"), <<>>, <<>>, 0, 0))
    ELSE IF fault = "query"
    THEN Outcome([st EXCEPT !.session.inTx = TRUE],
                 Response("get", user_id, EmptyDict, fault, 500,
                          ErrorBody("storage"), <<>>, <<>>, 0, 0))
    ELSE GetTry(st, user_id, fault)

get_user(st, user_id, fault) ==
    IF DependenciesMissing
    THEN Outcome(st, Response("get", user_id, EmptyDict, fault, 503,
                              ErrorBody("dependencies"), <<>>, <<>>, 0, 0))
    ELSE GetTry(st, user_id, fault)

\* a fault is recorded as injected also when the handler returns before
\* the call that would raise
GetReaches(user_id, fault) ==
    IF DependenciesMissing THEN fault = "none"
    ELSE fault \in {"none", "docget", "query"}

GetUser ==
    \E user_id \in UserIds, fault \in Faults :
        /\ GetReaches(user_id, fault)
        /\ \E out \in {get_user(Stores, user_id, fault)} :
              Apply(out)

\* --------------------------------------------------- PUT /users/<user_id>
\* the fields update_user writes to the document
UpdateFields(update_data, now) == Put(Pop(update_data, "location"), "updated_at", now)

\* if firestore_data: user_ref.update(firestore_data)
UpdateDocument(docs, user_id, firestore_data) ==
    IF DOMAIN firestore_data # {}
    THEN [docs EXCEPT ![user_id] = Merge(@, firestore_data)]
    ELSE docs

\* variant of UpdateStage without the branch that assigns the point to
\* the row found; C4 fails under it
UpdateStageInsertOnly(table, s, user_id, update_data) ==
    IF ~HasLocation(update_data) THEN s
    ELSE IF QueryFirst(table, s, user_id) # {}
    THEN [s EXCEPT !.inTx = TRUE]
    ELSE SessionAdd(s, UserLocation(user_id, PayloadWkt(update_data)))

\* the session after update_user's staging step: the row found is
\* assigned the new point, or a new row is added
UpdateStage(table, s, user_id, update_data) ==
    IF ~HasLocation(update_data) THEN s
    ELSE IF QueryFirst(table, s, user_id) # {}
    THEN AssignLocation(s, user_id, PayloadWkt(update_data))
    ELSE SessionAdd(s, UserLocation(user_id, PayloadWkt(update_data)))

\* the try block of update_user, for a non-empty payload
UpdateTry(st, user_id, update_data, fault, produceRaises) ==
    LET r(s, status, body, calls, produced, commits, rollbacks) ==
            Outcome(s, Response("update", user_id, update_data, fault, status, body,
                                calls, produced, commits, rollbacks))
        failed(s, commits, pending) ==
            LET out == r([s EXCEPT !.session = SessionRollback(pending)], 500,
                         ErrorBody("storage"), <<>>, <<>>, commits, 1)
            IN  IF fault \in {"docwrite", "commit"}
                THEN Outcome(out.st, Reached(out.resp, pending))
                ELSE out
        staged == UpdateStage(st.user_locations, st.session, user_id, update_data)
        now == st.clock + 1
        firestore_data == UpdateFields(update_data, now)
        written == [st EXCEPT !.users = UpdateDocument(@, user_id, firestore_data),
                              !.clock = IF DOMAIN firestore_data # {} THEN now ELSE @]
        done == r([written EXCEPT !.user_locations = Flush(@, staged),
                                  !.session = CleanSession],
                  200, [id |-> user_id],
                  <<PublishCall("UserUpdated", user_id, update_data)>>,
                  <<>>, 1, 0)
    IN  IF fault = "docget" THEN failed(st, 0, st.session)
        ELSE IF user_id \notin DOMAIN st.users
        THEN r(st, 404, ErrorBody("not found"), <<>>, <<>>, 0, 0)
        ELSE IF HasLocation(update_data)
                /\ (fault \in {"query", "stage"}
                    \/ FlushConflict(st.user_locations, st.session))
        THEN failed(st, 0, [st.session EXCEPT !.inTx = TRUE])
        ELSE IF fault = "docwrite" THEN failed(st, 0, staged)
        ELSE IF CommitRaises(st.user_locations, staged, fault)
        THEN failed(written, 1, staged)
        ELSE Publishing(Outcome(done.st, Reached(done.resp, staged)),
                        publish_event("UserUpdated", user_id, update_data,
                                      produceRaises))

\* variant of update_user that stages the geo change before it checks
\* that the document exists; C9 fails under it
UpdateStagesBeforeLookup(st, user_id, update_data, fault, produceRaises) ==
    IF DependenciesMissing
    THEN Outcome(st, Response("update", user_id, update_data, fault, 503,
                              ErrorBody("dependencies"), <<>>, <<>>, 0, 0))
    ELSE IF DOMAIN update_data = {}
    THEN Outcome(st, Response("update", user_id, update_data, fault, 400,
                              ErrorBody("update data required"), <<>>, <<>>, 0, 0))
    ELSE IF fault = "none" /\ user_id \notin DOMAIN st.users
    THEN Outcome([st EXCEPT !.session = UpdateStage(st.user_locations, @, user_id,
                                                    update_data)],
                 Response("update", user_id, update_data, fault, 404,
                          ErrorBody("not found"), <<>>, <<>>, 0, 0))
    ELSE UpdateTry(st, user_id, update_data, fault, produceRaises)

update_user(st, user_id, update_data, fault, produceRaises) ==
    IF DependenciesMissing
    THEN Outcome(st, Response("update", user_id, update_data, fault, 503,
                              ErrorBody("dependencies"), <<>>, <<>>, 0, 0))
    ELSE IF DOMAIN update_data = {}
    THEN Outcome(st, Response("update", user_id, update_data, fault, 400,
                              ErrorBody("update data required"), <<>>, <<>>, 0, 0))
    ELSE UpdateTry(st, user_id, update_data, fault, produceRaises)

UpdateReaches(user_id, update_data, fault, produceRaises) ==
    IF DependenciesMissing \/ DOMAIN update_data = {}
    THEN fault = "none" /\ ~produceRaises
    ELSE IF user_id \notin DOMAIN users
    THEN fault \in {"none", "docget"} /\ ~produceRaises
    ELSE /\ fault \in {"none", "docget", "docwrite", "commit"}
                      \cup (IF HasLocation(update_data) THEN {"query", "stage"} ELSE {})
         /\ produceRaises => (fault = "none" /\ producer)
         /\ clock < MaxClock

UpdateUser ==
    \E user_id \in UserIds, update_data \in UpdatePayloads, fault \in Faults,
       produceRaises \in BOOLEAN :
        /\ UpdateReaches(user_id, update_data, fault, produceRaises)
        /\ \E out \in {update_user(Stores, user_id, update_data, fault, produceRaises)} :
              Apply(out)

\* ------------------------------------------------ DELETE /users/<user_id>
\* variant of DeleteStage that never marks the row found as deleted; C5
\* fails under it
DeleteStageKeepsRow(table, s, user_id) == [s EXCEPT !.inTx = TRUE]

\* the session after delete_user's staging step: the row found is marked
\* deleted
DeleteStage(table, s, user_id) ==
    IF QueryFirst(table, s, user_id) # {}
    THEN SessionDelete(s, user_id)
    ELSE [s EXCEPT !.inTx = TRUE]

\* the try block of delete_user
DeleteTry(st, user_id, fault, produceRaises) ==
    LET r(s, status, body, calls, produced, commits, rollbacks) ==
            Outcome(s, Response("delete", user_id, EmptyDict, fault, status, body,
                                calls, produced, commits, rollbacks))
        failed(s, commits, pending) ==
            LET out == r([s EXCEPT !.session = SessionRollback(pending)], 500,
                         ErrorBody("storage"), <<>>, <<>>, commits, 1)
            IN  IF fault \in {"docwrite", "commit"}
                THEN Outcome(out.st, Reached(out.resp, pending))
                ELSE out
        staged == DeleteStage(st.user_locations, st.session, user_id)
        deleted == [st EXCEPT !.users = Pop(@, user_id)]
        done == r([deleted EXCEPT !.user_locations = Flush(@, staged),
                                  !.session = CleanSession],
                  204, EmptyDict,
                  <<PublishCall("UserDeleted", user_id, [user_id |-> user_id])>>,
                  <<>>, 1, 0)
    IN  IF fault = "docget" THEN failed(st, 0, st.session)
        ELSE IF user_id \notin DOMAIN st.users
        THEN r(st, 404, ErrorBody("not found"), <<>>, <<>>, 0, 0)
        ELSE IF fault \in {"query", "stage"} \/ FlushConflict(st.user_locations, st.session)
        THEN failed(st, 0, [st.session EXCEPT !.inTx = TRUE])
        ELSE IF fault = "docwrite" THEN failed(st, 0, staged)
        ELSE IF CommitRaises(st.user_locations, staged, fault)
        THEN failed(deleted, 1, staged)
        ELSE Publishing(Outcome(done.st, Reached(done.resp, staged)),
                        publish_event("UserDeleted", user_id, [user_id |-> user_id],
                                      produceRaises))

delete_user(st, user_id, fault, produceRaises) ==
    IF DependenciesMissing
    THEN Outcome(st, Response("delete", user_id, EmptyDict, fault, 503,
                              ErrorBody("dependencies"), <<>>, <<>>, 0, 0))
    ELSE DeleteTry(st, user_id, fault, produceRaises)

DeleteReaches(user_id, fault, produceRaises) ==
    IF DependenciesMissing
    THEN fault = "none" /\ ~produceRaises
    ELSE IF user_id \notin DOMAIN users
    THEN fault \in {"none", "docget"} /\ ~produceRaises
    ELSE /\ fault \in {"none", "docget", "query", "docwrite", "commit"}
                      \cup (IF QueryFirst(user_locations, session, user_id) # {}
                            THEN {"stage"} ELSE {})
         /\ produceRaises => (fault = "none" /\ producer)

DeleteUser ==
    \E user_id \in UserIds, fault \in Faults, produceRaises \in BOOLEAN :
        /\ DeleteReaches(user_id, fault, produceRaises)
        /\ \E out \in {delete_user(Stores, user_id, fault, produceRaises)} :
              Apply(out)

\* ------------------------------------------------------------ GET /health
EnvVars ==
    {"FIREBASE_ADMIN_SDK_BASE64", "POSTGRES_POSTGRES_URL", "KAFKA_BOOTSTRAP_SERVER",
     "KAFKA_API_KEY", "KAFKA_API_SECRET"}

\* the variables set (and non-empty) in os.environ when the request is
\* handled: all of them, or all but KAFKA_API_KEY, which no client
\* initialisation tests
Environs == {EnvVars, EnvVars \ {"KAFKA_API_KEY"}}

\* get_health_status: the status document, environ being the variables
\* set and fault = "query" making SELECT 1 raise
get_health_status(environ, fault) ==
    LET pg_status == IF ~db_session THEN "error"
                     ELSE IF fault = "query" THEN "error during query"
                     ELSE "ok"
        set(e) == IF e THEN "set" ELSE "none"
    IN  [environment_variables |->
             [v \in EnvVars |-> IF v \in environ THEN "present" ELSE "missing"],
         dependencies |->
             [firestore |-> IF db THEN "ok" ELSE "error",
              kafka_producer |-> IF producer THEN "ok" ELSE "error",
              postgresql_connection |-> pg_status,
              table_initialization |-> IF ~db_init_error THEN "ok" ELSE "error"],
         initialization_errors |->
             [firestore |-> set(~db),
              postgresql_engine |-> set(~db_session),
              postgresql_table |-> set(db_init_error),
              postgresql_query |-> set(db_session /\ fault = "query"),
              kafka_producer |-> set(~producer)]]

health_check(st, environ, fault) ==
    LET status == get_health_status(environ, fault)
        all_ok == /\ \A v \in EnvVars : status.environment_variables[v] = "present"
                  /\ status.dependencies.firestore = "ok"
                  /\ status.dependencies.kafka_producer = "ok"
                  /\ status.dependencies.postgresql_connection = "ok"
                  /\ status.dependencies.table_initialization = "ok"
        http_status == IF all_ok THEN 200 ELSE 503
    IN  Outcome([st EXCEPT !.session = HealthProbe(@)],
                Probed(Response("health", 0, EmptyDict, fault, http_status, status,
                                <<>>, <<>>, 0, 0)))

Health ==
    \E environ \in Environs, fault \in {"none", "query"} :
        /\ fault = "query" => db_session
        /\ \E out \in {health_check(Stores, environ, fault)} :
              Apply(out)

\* ------------------------------------------------------------------ Spec
Next ==
    \/ CreateUser
    \/ GetUser
    \/ UpdateUser
    \/ DeleteUser

Spec == Init /\ [][Next]_vars

\* the /users routes and /health, on a module whose table initialisation
\* may have failed
NextHealth ==
    \/ CreateUser
    \/ GetUser
    \/ UpdateUser
    \/ DeleteUser
    \/ Health

SpecHealth == InitTableError /\ [][NextHealth]_vars

\* ================================================================ claims
\* the committed rows of user_locations that belong to user_id
RowsOf(table, user_id) == { t \in table : t.user_id = user_id }

\* the session holds no pending change
NothingPending(s) == s.new = {} /\ s.dirty = {} /\ s.deleted = {}

\* the last request was op and was answered with status
Answered(r, op, status) == r.op = op /\ r.status = status

\* the point a stored value decodes to, as get_user reports it
Decoded(location) ==
    [latitude |-> to_shape(location).y, longitude |-> to_shape(location).x]

\* ---------------------------------------------------------------- C1
\* C1: after a create that carried a well-formed location and was answered
\* 201 with an id, the document of the returned id exists, exactly one
\* committed geo row exists for that id, and the row decodes to the
\* latitude and longitude of the payload.
C1_CreateWithLocationStoresBoth ==
    (Answered(resp, "create", 201) /\ HasLocation(resp.payload)) =>
        /\ resp.body = [id |-> resp.user_id]
        /\ resp.user_id \in DOMAIN users
        /\ Cardinality(RowsOf(user_locations, resp.user_id)) = 1
        /\ \A t \in RowsOf(user_locations, resp.user_id) :
               Decoded(t.location) = resp.payload["location"]

C1_Witness ==
    /\ Answered(resp, "create", 201)
    /\ HasLocation(resp.payload)
    /\ RowsOf(user_locations, resp.user_id) # {}

\* ---------------------------------------------------------------- C2
\* C2 as stated: whenever a create that carried a location ends in 500,
\* neither a document nor a committed geo row exists for the generated id.
C2_CreateAllOrNothing ==
    (Answered(resp, "create", 500) /\ HasLocation(resp.payload)) =>
        /\ resp.user_id \notin DOMAIN users
        /\ RowsOf(user_locations, resp.user_id) = {}

\* C2 amended: whenever a create that carried a location ends in 500, no
\* committed geo row exists for the generated id and the session holds no
\* pending change; the document of that id exists exactly when the failure
\* was raised by the commit, which runs after the document was written.
C2_CreateFailureLeavesNoGeoRow ==
    (Answered(resp, "create", 500) /\ HasLocation(resp.payload)) =>
        /\ RowsOf(user_locations, resp.user_id) = {}
        /\ NothingPending(session)
        /\ resp.rollbacks = 1
        /\ (resp.user_id \in DOMAIN users) <=> (resp.commits = 1)

C2_Witness ==
    /\ Answered(resp, "create", 500)
    /\ HasLocation(resp.payload)
    /\ resp.commits = 1
    /\ resp.user_id \in DOMAIN users

\* ---------------------------------------------------------------- C3
\* the event type of an operation, and its success status
EventTypeOf(op) ==
    CASE op = "create" -> "UserCreated"
      [] op = "update" -> "UserUpdated"
      [] op = "delete" -> "UserDeleted"

SuccessOf(op) ==
    CASE op = "create" -> 201
      [] op = "update" -> 200
      [] op = "delete" -> 204

\* C3: a create, update or delete answered with its success status called
\* publish_event exactly once, with the event type of the operation and the
\* target's id (the generated id for a create); one answered 400, 404, 500
\* or 503 called it zero times.
C3_PublishOncePerSuccess ==
    (resp.op \in {"create", "update", "delete"}) =>
        IF resp.status = SuccessOf(resp.op)
        THEN /\ Len(resp.publish_calls) = 1
             /\ resp.publish_calls[1].event_type = EventTypeOf(resp.op)
             /\ resp.publish_calls[1].user_id = resp.user_id
             /\ resp.op = "create" => resp.body = [id |-> resp.publish_calls[1].user_id]
        ELSE /\ resp.status \in {400, 404, 500, 503}
             /\ resp.publish_calls = <<>>
             /\ resp.produced = <<>>

C3_Witness ==
    /\ Answered(resp, "delete", 204)
    /\ Len(resp.publish_calls) = 1
    /\ resp.publish_calls[1].event_type = "UserDeleted"

\* ---------------------------------------------------------------- C4
\* C4: an update that carried a well-formed location and was answered 200
\* leaves exactly one geo row for the user, holding the new point; when the
\* user had a row, the row was assigned the point and no row was added (the
\* table has as many rows as before); when it had none, one row was added.
C4_UpdateStep ==
    (Answered(resp', "update", 200) /\ HasLocation(resp'.payload)) =>
        LET user_id == resp'.user_id
            row == UserLocation(user_id, PayloadWkt(resp'.payload))
        IN  /\ RowsOf(user_locations', user_id) = {row}
            /\ IF RowsOf(user_locations, user_id) # {}
               THEN /\ resp'.staged.new = {}
                    /\ resp'.staged.dirty = {row}
                    /\ Cardinality(user_locations') = Cardinality(user_locations)
               ELSE /\ resp'.staged.new = {row}
                    /\ resp'.staged.dirty = {}
                    /\ Cardinality(user_locations') = Cardinality(user_locations) + 1

C4_UpdateUpsertsByPresence == [][C4_UpdateStep]_vars

C4_Witness ==
    /\ Answered(resp, "update", 200)
    /\ HasLocation(resp.payload)
    /\ resp.staged.dirty # {}
    /\ RowsOf(user_locations, resp.user_id)
         = {UserLocation(resp.user_id, PayloadWkt(resp.payload))}

\* ---------------------------------------------------------------- C5
\* C5: a delete of an existing user in which no store call raises is
\* answered 204 whether or not the user has a geo row; after a 204 neither
\* the document nor a geo row of that id exists; the document of an id that
\* was handed out and has no document never comes back; and a delete of an
\* id without a document is answered 404 and changes nothing.
C5_DeleteStep ==
    LET user_id == resp'.user_id
    IN  /\ (resp'.op = "delete" /\ ~DependenciesMissing /\ resp'.fault = "none"
              /\ user_id \in DOMAIN users)
            => resp'.status = 204
        /\ Answered(resp', "delete", 204)
            => /\ user_id \notin DOMAIN users'
               /\ RowsOf(user_locations', user_id) = {}
        /\ \A u \in 1..generated : u \notin DOMAIN users => u \notin DOMAIN users'
        /\ (resp'.op = "delete" /\ ~DependenciesMissing /\ resp'.fault # "docget"
              /\ user_id \notin DOMAIN users)
            => /\ resp'.status = 404
               /\ UNCHANGED <<users, user_locations, session>>

C5_DeleteRemovesBothThenNotFound == [][C5_DeleteStep]_vars

\* a delete answered 404 on an id that was created with a location and has
\* neither its document nor its geo row any more
C5_Witness ==
    /\ Answered(resp, "delete", 404)
    /\ resp.user_id \in DOMAIN supplied
    /\ resp.user_id \notin DOMAIN users
    /\ RowsOf(user_locations, resp.user_id) = {}

\* ---------------------------------------------------------------- C6
\* a create answered 201 whose payload has no well-formed location
CreatedWithoutLocation(r) == Answered(r, "create", 201) /\ ~HasLocation(r.payload)

\* C6: a create answered 201 whose payload has no location, or a location
\* missing latitude or longitude, staged no geo row and committed none
\* (the table is unchanged), called commit once, and a get of that id that
\* follows it, in which no store call raises, is answered 200 with the
\* record and without a location key.
C6_CreateStep ==
    /\ CreatedWithoutLocation(resp')
        => /\ resp'.staged.new = {}
           /\ user_locations' = user_locations
           /\ RowsOf(user_locations', resp'.user_id) = {}
           /\ resp'.commits = 1
           /\ resp'.user_id \in DOMAIN users'
    /\ (CreatedWithoutLocation(resp) /\ resp'.op = "get"
          /\ resp'.user_id = resp.user_id /\ resp'.fault = "none")
        => /\ resp'.status = 200
           /\ "location" \notin DOMAIN resp'.body
           /\ resp'.body = Put(users[resp.user_id], "id", resp.user_id)

C6_CreateWithoutLocationStagesNothing == [][C6_CreateStep]_vars

\* a get answered 200 without a location key, on a user to whom no request
\* supplied a well-formed location and whose document was never updated
C6_Witness ==
    /\ Answered(resp, "get", 200)
    /\ "location" \notin DOMAIN resp.body
    /\ resp.user_id \notin DOMAIN supplied
    /\ users[resp.user_id]["updated_at"] = users[resp.user_id]["created_at"]

\* ---------------------------------------------------------------- C7
\* C7: every committed row of a user whose last successful location was
\* (latitude, longitude) holds the text POINT(<longitude> <latitude>) (so
\* the pair -10.0, -20.0 is held as POINT(-20.0 -10.0)), and a get answered
\* 200 on a user to whom some successful create or update supplied a
\* well-formed location reports the pair of the most recent one.
C7_LocationRoundTrip ==
    /\ \A t \in user_locations :
           t.user_id \in DOMAIN supplied =>
               LET lat == supplied[t.user_id]["latitude"]
                   lon == supplied[t.user_id]["longitude"]
               IN  /\ t.location = <<"P", "O", "I", "N", "T", "(">> \o FloatStr(lon)
                                     \o <<" ">> \o FloatStr(lat) \o <<")">>
                   /\ (lat = -100 /\ lon = -200) =>
                          t.location = <<"P", "O", "I", "N", "T", "(", "-", "2", "0", ".",
                                         "0", " ", "-", "1", "0", ".", "0", ")">>
    /\ (Answered(resp, "get", 200) /\ resp.user_id \in DOMAIN supplied) =>
           /\ "location" \in DOMAIN resp.body
           /\ resp.body["location"] = supplied[resp.user_id]

\* a get answered 200 on a user whose location was replaced by an update
C7_Witness ==
    /\ Answered(resp, "get", 200)
    /\ resp.user_id \in DOMAIN supplied
    /\ supplied[resp.user_id] = [latitude |-> -100, longitude |-> -200]
    /\ users[resp.user_id]["updated_at"] > users[resp.user_id]["created_at"]
    /\ "location" \in DOMAIN resp.body

\* ---------------------------------------------------------------- C8
\* C8: a get of an id that has no document, in which the document read
\* does not raise, is answered 404 whatever the geo store holds and even
\* when the geo lookup would raise; the session is not touched.
C8_GetStep ==
    (resp'.op = "get" /\ ~DependenciesMissing /\ resp'.fault # "docget"
       /\ resp'.user_id \notin DOMAIN users)
        => /\ resp'.status = 404
           /\ UNCHANGED <<users, user_locations, session>>

C8_GetWithoutDocumentIsNotFound == [][C8_GetStep]_vars

\* a 404 on an id that has a committed geo row and no document, with the
\* geo lookup set to raise
C8_Witness ==
    /\ Answered(resp, "get", 404)
    /\ resp.fault = "query"
    /\ resp.user_id \notin DOMAIN users
    /\ RowsOf(user_locations, resp.user_id) # {}

\* ---------------------------------------------------------------- C9
\* C9: a create or update answered 400 and an update or delete answered
\* 404 leave the documents, the committed geo rows and the session's
\* pending state as they were, and call publish_event zero times.
C9_RejectStep ==
    (\/ resp'.op \in {"create", "update"} /\ resp'.status = 400
     \/ resp'.op \in {"update", "delete"} /\ resp'.status = 404)
        => /\ UNCHANGED <<users, user_locations, session>>
           /\ resp'.publish_calls = <<>>
           /\ resp'.produced = <<>>
           /\ resp'.commits = 0

C9_RejectionsChangeNothing == [][C9_RejectStep]_vars

\* an update answered 404 whose payload carries a well-formed location
C9_Witness ==
    /\ Answered(resp, "update", 404)
    /\ HasLocation(resp.payload)
    /\ resp.user_id \notin DOMAIN users

\* ---------------------------------------------------------------- C10
\* email or name is missing from the payload, or is the empty string
MissingOrEmpty(data) ==
    \/ "email" \notin DOMAIN data
    \/ "name" \notin DOMAIN data
    \/ data["email"] = ""
    \/ data["name"] = ""

\* C10 as stated: a create whose payload has email or name missing or
\* empty, handled with both stores available and no store call raising,
\* is answered 400 and creates no document and no geo row.
C10_CreateRejectsMissingOrEmpty ==
    (resp.op = "create" /\ ~DependenciesMissing /\ resp.fault = "none"
       /\ MissingOrEmpty(resp.payload)) =>
        /\ resp.status = 400
        /\ resp.user_id \notin DOMAIN users
        /\ RowsOf(user_locations, resp.user_id) = {}

\* ---------------------------------------------------------------- C11
\* C11 as stated: with the document client or the session missing, a
\* create, get, update or delete is answered 503, and a request answered
\* 503 made no call on the session (no execute, add, commit or rollback)
\* and left the documents, the committed rows and the session as they were.
C11_UnavailableStep ==
    /\ (resp'.op \in {"create", "get", "update", "delete"} /\ DependenciesMissing)
        => resp'.status = 503
    /\ resp'.status = 503
        => /\ resp'.probes = 0
           /\ resp'.commits = 0
           /\ resp'.rollbacks = 0
           /\ UNCHANGED <<users, user_locations, session>>

C11_UnavailableBeforeAnyStoreCall == [][C11_UnavailableStep]_vars

\* ---------------------------------------------------------------- C12
\* the outcome of the request just answered, had produce() raised or not
AsIfPublish(r, raises) ==
    IF r.op = "create" THEN create_user(Stores, r.payload, r.fault, raises)
    ELSE IF r.op = "update" THEN update_user(Stores, r.user_id, r.payload, r.fault, raises)
    ELSE delete_user(Stores, r.user_id, r.fault, raises)

\* C12: a publish failure never affects the caller.  A create, update or
\* delete whose store operations and commit succeeded is answered 201, 200
\* or 204, with or without a producer, and leaves the same documents,
\* committed rows and session whether produce() raises or not; it calls
\* publish_event once, which calls produce() once when there is a producer
\* and never otherwise, and hands over no event when produce() raised.
C12_PublishStep ==
    LET r == resp'
    IN  (/\ r.op \in {"create", "update", "delete"}
         /\ r.fault = "none"
         /\ r.commits = 1)
        => /\ r.status = SuccessOf(r.op)
           /\ Len(r.publish_calls) = 1
           /\ r.produce_calls = IF producer THEN 1 ELSE 0
           /\ \A raises \in BOOLEAN :
                 \A out \in {AsIfPublish(r, raises)} :
                    /\ out.resp.status = r.status
                    /\ out.st.users = users'
                    /\ out.st.user_locations = user_locations'
                    /\ out.st.session = session'
                    /\ out.resp.produce_calls = r.produce_calls
                    /\ (raises => out.resp.produced = <<>>)

C12_PublishNeverAffectsCaller == [][C12_PublishStep]_vars

\* a create with a location was answered 201 although produce() raised
C12_Witness ==
    /\ Answered(resp, "create", 201)
    /\ HasLocation(resp.payload)
    /\ producer
    /\ resp.produce_calls = 1
    /\ resp.produced = <<>>

\* ---------------------------------------------------------------- C13
\* the data a successful request must publish: the request body for a
\* create or an update, {user_id} for a delete
PublishedData(r) ==
    IF r.op = "delete" THEN [user_id |-> r.user_id] ELSE r.payload

\* C13: the data passed to publish_event by a successful create or update
\* is the request body unmodified, its location included (not the document
\* written, which has no location and carries timestamps), the data passed
\* by a successful delete is exactly {user_id}, and an event handed to the
\* producer carries that same data.
C13_EventCarriesPayload ==
    (resp.op \in {"create", "update", "delete"} /\ resp.status = SuccessOf(resp.op))
    => /\ Len(resp.publish_calls) = 1
       /\ resp.publish_calls[1].data = PublishedData(resp)
       /\ \A i \in 1..Len(resp.produced) : resp.produced[i].data = PublishedData(resp)
       /\ (resp.op # "delete" /\ resp.user_id \in DOMAIN users)
           => /\ DOMAIN users[resp.user_id] # DOMAIN resp.payload
              /\ ("location" \in DOMAIN resp.payload)
                  <=> ("location" \in DOMAIN resp.publish_calls[1].data)

\* an update with a location and a name succeeded and its event was handed
\* to the producer
C13_Witness ==
    /\ Answered(resp, "update", 200)
    /\ DOMAIN resp.payload = {"name", "location"}
    /\ Len(resp.produced) = 1

\* ---------------------------------------------------------------- C17
\* C17 as stated: every request that may touch the session (create, get,
\* update, delete and the health probe, answered with anything but the 503
\* of a missing dependency) ends with the session holding no pending change
\* and no open transaction.
C17_SessionClosedAfterRequest ==
    (resp.op # "none" /\ ~(resp.op # "health" /\ resp.status = 503))
    => (NothingPending(session) /\ ~session.inTx)

\* ---------------------------------------------------------------- C18
\* the committed geo rows whose user has no document
Orphans(docs, table) == {row \in table : row.user_id \notin DOMAIN docs}

\* C18 as stated: in every reachable state every committed geo row belongs
\* to a user_id whose document exists.
C18_NoOrphanGeoRow == Orphans(users, user_locations) = {}

\* C18, amended: a committed geo row always belongs to a user_id that a
\* create generated; a geo row loses its document only in a delete that is
\* answered 500 because the relational commit raised after the document was
\* deleted, and then it is that user's row; a delete answered 204 leaves
\* neither the document nor a geo row of that user.
C18_OrphanStep ==
    /\ \A row \in user_locations' : row.user_id \in 1..generated'
    /\ \A row \in Orphans(users', user_locations') \ Orphans(users, user_locations) :
          /\ Answered(resp', "delete", 500)
          /\ resp'.commits = 1
          /\ row.user_id = resp'.user_id
          /\ row \in user_locations
    /\ Answered(resp', "delete", 204)
        => /\ resp'.user_id \notin DOMAIN users'
           /\ RowsOf(user_locations', resp'.user_id) = {}

C18_OrphanOnlyAfterFailedDeleteCommit == [][C18_OrphanStep]_vars

\* a delete of a user with a geo row was answered 500 after its commit
\* raised: the document is gone and the row is still committed
C18_Witness ==
    /\ Answered(resp, "delete", 500)
    /\ resp.commits = 1
    /\ resp.user_id \notin DOMAIN users
    /\ RowsOf(user_locations, resp.user_id) # {}

\* ---------------------------------------------------------------- C20
\* C20: an update answered 500, whichever step raised (document lookup, geo
\* lookup, in-place mutation or insert, document update, commit), called
\* rollback, leaves the committed geo row of that user as it was (the same
\* point when there was a row, none when there was none) and leaves no
\* staged change and no open transaction in the session.
C20_UpdateFailureStep ==
    Answered(resp', "update", 500)
        => /\ RowsOf(user_locations', resp'.user_id) = RowsOf(user_locations, resp'.user_id)
           /\ user_locations' = user_locations
           /\ resp'.rollbacks = 1
           /\ session' = CleanSession

C20_UpdateFailureRollsBack == [][C20_UpdateFailureStep]_vars

\* an update that moves an existing geo row was answered 500 after its
\* commit raised, and the row still holds another point than the payload's
C20_Witness ==
    /\ Answered(resp, "update", 500)
    /\ resp.fault = "commit"
    /\ HasLocation(resp.payload)
    /\ resp.staged.dirty # {}
    /\ \E row \in RowsOf(user_locations, resp.user_id) :
          Decoded(row.location) # resp.payload["location"]

\* ---------------------------------------------------------------- C14
\* the PostgreSQL probe of the request just answered failed
ProbeFailed(r) == db_session /\ r.fault = "query"

\* C14 as stated: GET /health is answered 200 with the body {firestore:
\* ok, kafka_producer: ok, postgresql: ok} whenever the document client,
\* the producer and the PostgreSQL probe are all available, and 503 with
\* postgresql reported as "error" when the probe query fails.
C14_HealthReflectsThreeDependencies ==
    resp.op = "health"
    => /\ (db /\ producer /\ db_session /\ ~ProbeFailed(resp))
           => /\ resp.status = 200
              /\ resp.body = [firestore |-> "ok", kafka_producer |-> "ok",
                              postgresql |-> "ok"]
       /\ ProbeFailed(resp)
           => /\ resp.status = 503
              /\ "postgresql" \in DOMAIN resp.body
              /\ resp.body["postgresql"] = "error"

\* ------------------------------------------- requests handled concurrently
\* Two requests of one process run on the one db_session; a handler is
\* taken in steps, each a call on a store, and the steps of the two
\* requests interleave.  resp is the response the last step returned, if
\* it returned one.

\* the ids a PUT or DELETE may name: the generated ones and one more
ConcUserIds == 1..(MaxUsers + 1)

ConcCreatePayloads ==
    { [email |-> "a@b.com", name |-> "A",
       location |-> [latitude |-> -235, longitude |-> -466]] }

ConcUpdatePayloads ==
    { [name |-> "B"] } \cup { [location |-> p] : p \in Points }

\* a request taken up
Request(op, user_id, payload, apart) ==
    [op |-> op, user_id |-> user_id, payload |-> payload, found |-> FALSE,
     apart |-> apart]

\* the module with every client initialised, the stores empty and no
\* request being handled
InitConc == Init /\ db /\ db_session /\ producer

\* the geo row worker w has staged in the session, as a set
StagedBy(w) ==
    IF /\ pc[w] \in {"staged", "written"}
       /\ req[w].op \in {"create", "update"}
       /\ HasLocation(req[w].payload)
    THEN {UserLocation(req[w].user_id, PayloadWkt(req[w].payload))}
    ELSE {}

\* a step of a handler leaves the clients and the history alone
ConcFrame == UNCHANGED <<db, db_session, producer, db_init_error, supplied>>

\* a step that returns no response
NoReturn == resp' = NoResponse

\* the requests being handled, once a request on user_id has arrived: those
\* on the same user_id stop being apart
Overlapped(user_id) ==
    [v \in Workers |->
        IF pc[v] # "idle" /\ req[v].user_id = user_id
        THEN [req[v] EXCEPT !.apart = FALSE]
        ELSE req[v]]

\* worker w takes up the request r and stands at 'at'
Taken(w, r, at) ==
    LET clash == \E v \in Workers \ {w} : pc[v] # "idle" /\ req[v].user_id = r.user_id
    IN  /\ req' = [Overlapped(r.user_id) EXCEPT ![w] = [r EXCEPT !.apart = ~clash]]
        /\ pc' = [pc EXCEPT ![w] = at]

\* worker w returns the response r
Returns(w, r) ==
    /\ resp' = r
    /\ pc' = [pc EXCEPT ![w] = "idle"]
    /\ req' = [req EXCEPT ![w] = NoRequest]

\* the except clauses of a handler: db_session.rollback(), then 500
Fails(w, fault, commits) ==
    /\ session' = SessionRollback(session)
    /\ Returns(w, Response(req[w].op, req[w].user_id, req[w].payload, fault,
                           500, ErrorBody("storage"), <<>>, <<>>, commits, 1))

\* create_user up to db_session.add: the id is generated and the row of a
\* well-formed location is added to the session
ConcCreateBegin ==
    \E w \in Workers, user_data \in ConcCreatePayloads :
        /\ ConcFrame
        /\ pc[w] = "idle"
        /\ generated < MaxUsers
        /\ generated' = generated + 1
        /\ session' = CreateStage(session, generated + 1, user_data)
        /\ Taken(w, Request("create", generated + 1, user_data, TRUE), "staged")
        /\ NoReturn
        /\ UNCHANGED <<users, user_locations, clock>>

\* update_user and delete_user up to the geo lookup: user_ref.get() raises
\* (rollback, 500), finds no document (404), or the handler goes on; an
\* update with a well-formed location runs the query, a delete runs it and
\* marks the record found as deleted.  The requests that end here are
\* taken as updates with one body
ConcLookup ==
    \E w \in Workers, op \in {"update", "delete"}, user_id \in ConcUserIds,
       update_data \in ConcUpdatePayloads, fault \in {"none", "docget"} :
        LET payload == IF op = "delete" THEN EmptyDict ELSE update_data
            r == Request(op, user_id, payload, TRUE)
            queried == [session EXCEPT !.inTx = TRUE]
            found == QueryFirst(user_locations, session, user_id) # {}
        IN  /\ ConcFrame
            /\ pc[w] = "idle"
            /\ op = "delete" => update_data = [name |-> "B"]
            /\ (fault = "docget" \/ user_id \notin DOMAIN users)
                => (op = "update" /\ update_data = [name |-> "B"])
            /\ UNCHANGED <<users, user_locations, generated, clock>>
            /\ IF fault = "docget"
               THEN /\ session' = SessionRollback(session)
                    /\ resp' = Response(op, user_id, payload, fault, 500,
                                        ErrorBody("storage"), <<>>, <<>>, 0, 1)
                    /\ req' = Overlapped(user_id)
                    /\ UNCHANGED pc
               ELSE IF user_id \notin DOMAIN users
               THEN /\ resp' = Response(op, user_id, payload, fault, 404,
                                        ErrorBody("not found"), <<>>, <<>>, 0, 0)
                    /\ req' = Overlapped(user_id)
                    /\ UNCHANGED <<session, pc>>
               ELSE IF op = "update" /\ ~HasLocation(payload)
               THEN /\ Taken(w, r, "staged")
                    /\ NoReturn
                    /\ UNCHANGED session
               ELSE IF op = "delete"
               THEN /\ session' = DeleteStage(user_locations, session, user_id)
                    /\ Taken(w, r, "staged")
                    /\ NoReturn
               ELSE /\ session' = queried
                    /\ Taken(w, [r EXCEPT !.found = found], "looked")
                    /\ NoReturn

\* what follows the geo lookup in update_user:
\* location_record.location = wkt_point or db_session.add(new_location)
ConcStage ==
    \E w \in Workers :
        LET user_id == req[w].user_id
        IN  /\ ConcFrame
            /\ pc[w] = "looked"
            /\ session' =
                  IF req[w].found
                  THEN AssignLocation(session, user_id, PayloadWkt(req[w].payload))
                  ELSE SessionAdd(session,
                                  UserLocation(user_id, PayloadWkt(req[w].payload)))
            /\ pc' = [pc EXCEPT ![w] = "staged"]
            /\ NoReturn
            /\ UNCHANGED <<users, user_locations, generated, clock, req>>

\* the document write: set, update or delete; when it raises the handler
\* rolls the session back and answers 500
ConcDocWrite ==
    \E w \in Workers, fault \in {"none", "docwrite"} :
        LET r == req[w]
            now == clock + 1
        IN  /\ ConcFrame
            /\ pc[w] = "staged"
            /\ UNCHANGED <<user_locations, generated>>
            /\ IF fault = "docwrite"
               THEN /\ Fails(w, fault, 0)
                    /\ UNCHANGED <<users, clock>>
               ELSE /\ r.op # "delete" => clock < MaxClock
                    /\ users' = CASE r.op = "create" ->
                                       Put(users, r.user_id, CreateDocument(r.payload, now))
                                  [] r.op = "update" ->
                                       UpdateDocument(users, r.user_id,
                                                      UpdateFields(r.payload, now))
                                  [] r.op = "delete" -> Pop(users, r.user_id)
                    /\ clock' = IF r.op = "delete" THEN clock ELSE now
                    /\ pc' = [pc EXCEPT ![w] = "written"]
                    /\ NoReturn
                    /\ UNCHANGED <<session, req>>

\* db_session.commit(): everything pending in the session is flushed and
\* committed, whichever request staged it; when it raises the handler rolls
\* the session back and answers 500, otherwise it publishes and answers
ConcCommit ==
    \E w \in Workers, fault \in {"none", "commit"} :
        LET r == req[w]
            data == IF r.op = "delete" THEN [user_id |-> r.user_id] ELSE r.payload
            answer == Outcome(Stores,
                              Response(r.op, r.user_id, r.payload, fault,
                                       SuccessOf(r.op),
                                       IF r.op = "delete" THEN EmptyDict
                                       ELSE [id |-> r.user_id],
                                       <<PublishCall(EventTypeOf(r.op), r.user_id, data)>>,
                                       <<>>, 1, 0))
        IN  /\ ConcFrame
            /\ pc[w] = "written"
            /\ UNCHANGED <<users, generated, clock>>
            /\ IF CommitRaises(user_locations, session, fault)
               THEN /\ Fails(w, fault, 1)
                    /\ UNCHANGED user_locations
               ELSE /\ user_locations' = Flush(user_locations, session)
                    /\ session' = CleanSession
                    /\ Returns(w, Publishing(answer,
                                             publish_event(EventTypeOf(r.op), r.user_id,
                                                           data, FALSE)).resp)

NextConc ==
    \/ ConcCreateBegin
    \/ ConcLookup
    \/ ConcStage
    \/ ConcDocWrite
    \/ ConcCommit

SpecConc == InitConc /\ [][NextConc]_vars

\* ---------------------------------------------------------------- C15
\* C15 as stated: the geo change a request staged becomes committed only
\* after that request's document write has succeeded: while a request
\* stands between its staging and its document write, no step of another
\* request commits the row it staged (unless that other request staged the
\* same row itself).
C15_CommitStep ==
    \A w \in Workers :
        (pc[w] = "staged" /\ pc'[w] = "staged")
        => \A row \in StagedBy(w) :
              (row \in user_locations' /\ row \notin user_locations)
              => \E v \in Workers \ {w} : row \in StagedBy(v)

C15_CommitOnlyAfterOwnDocumentWrite == [][C15_CommitStep]_vars

\* ---------------------------------------------------------------- C16
\* the rows pending in the session
Pending(s) == s.new \cup s.dirty

\* C16 as stated: requests are independent on the shared session.  The
\* rollback of a failing request discards no geo change staged by a request
\* on another user_id, and a request that returns 200 or 201 with a
\* well-formed location, and overlapped no request on its user_id, has its
\* geo row committed when it returns.
C16_IndependentStep ==
    \A w \in Workers :
        /\ (/\ resp'.rollbacks = 1
            /\ pc[w] \in {"staged", "written"}
            /\ pc'[w] = pc[w]
            /\ req[w].apart
            /\ req[w].user_id # resp'.user_id)
           => (StagedBy(w) \cap Pending(session)) \subseteq Pending(session')
        /\ (/\ pc[w] = "written"
            /\ pc'[w] = "idle"
            /\ resp'.status \in {200, 201}
            /\ HasLocation(req[w].payload)
            /\ req[w].apart)
           => UserLocation(req[w].user_id, PayloadWkt(req[w].payload)) \in user_locations'

C16_RequestsAreIndependent == [][C16_IndependentStep]_vars

\* ---------------------------------------------------------------- C19
\* C19: under every interleaving of concurrent creates, updates and
\* deletes on the shared session, the committed table holds at most one
\* row per user_id.
C19_OneRowPerUser ==
    \A r1, r2 \in user_locations : r1.user_id = r2.user_id => r1 = r2

\* an update's commit was refused by the primary key while another update
\* with a location on the same user, which also found no row, is running
C19_Witness ==
    /\ Answered(resp, "update", 500)
    /\ resp.commits = 1
    /\ resp.fault = "none"
    /\ HasLocation(resp.payload)
    /\ \E w \in Workers :
          /\ pc[w] \in {"staged", "written"}
          /\ req[w].op = "update"
          /\ req[w].user_id = resp.user_id
          /\ HasLocation(req[w].payload)
          /\ ~req[w].found

\* ---------------------------------------------------------------- C21
\* C21 as stated: an update answered 200 whose payload contains only a
\* well-formed `location` makes no update call on the document store: the
\* documents, the user's updated_at included, are as they were and no
\* server timestamp was taken, while the location is upserted as the user's
\* geo row.
C21_LocationOnlyStep ==
    (/\ Answered(resp', "update", 200)
     /\ DOMAIN resp'.payload = {"location"}
     /\ HasLocation(resp'.payload))
    => /\ users' = users
       /\ clock' = clock
       /\ RowsOf(user_locations', resp'.user_id)
              = {UserLocation(resp'.user_id, PayloadWkt(resp'.payload))}

C21_LocationOnlyLeavesDocument == [][C21_LocationOnlyStep]_vars
====
